---- MODULE Spec2Model ----
(***************************************************************************)
(* A model of the ChatGPT KeySwap browser extension.                       *)
(*                                                                         *)
(*   src/unnamed/part_000  lines 1-259   content script, first variant     *)
(*                                       (guard flag isProcessingFakeEvent)*)
(*   src/unnamed/part_000  lines 261-480 content script, second variant    *)
(*                                       (no guard flag, send fallback)    *)
(*   src/background.js     lines 1-42    background script                 *)
(*   src/background.js     lines 44-159  popup (Settings UI)               *)
(*                                                                         *)
(* One extension build ships one content script; the variable `variant`    *)
(* fixes which of the two it is.  Time is counted in milliseconds and      *)
(* advances in steps of the dispatch delay.                                *)
(***************************************************************************)
EXTENDS Naturals, Sequences, FiniteSets

(***************************************************************************)
(* Bounds of the model.                                                    *)
(***************************************************************************)
NumTabs == 3
NumEditors == 2
MaxTimers == 1
MaxChanges == 1

(***************************************************************************)
(* Program constants.                                                      *)
(***************************************************************************)
DISPATCH_DELAY == 10
RESET_DELAY == 50

Tabs == 1..NumTabs
Editors == 1..NumEditors

NONE == "none"
UNSET == "undefined"

\* The option values of the two selects, in the order of availableOptions.
availableOptions == <<"Enter", "Shift+Enter", "Alt+Enter", "Ctrl+Enter">>

Chords == {availableOptions[i] : i \in 1..Len(availableOptions)}

SettingsSpace == [sendAction : Chords, newlineAction : Chords]

\* Settings the Settings UI can save: see handleSettingChange.
ValidSettings == {s \in SettingsSpace : s.sendAction # s.newlineAction}

DEFAULT_SETTINGS_background == [sendAction |-> "Enter", newlineAction |-> "Shift+Enter"]

DEFAULT_SETTINGS_popup == [sendAction |-> "Enter", newlineAction |-> "Shift+Enter"]

DEFAULT_SETTINGS_1 == [sendAction |-> "Enter", newlineAction |-> "Shift+Enter"]

DEFAULT_SETTINGS_2 == [sendAction |-> "Alt+Enter", newlineAction |-> "Enter"]

DEFAULT_SETTINGS(v) == IF v = 1 THEN DEFAULT_SETTINGS_1 ELSE DEFAULT_SETTINGS_2

\* What the host page does by itself: plain Enter sends, Shift+Enter breaks
\* the line (the comments of keyHandler, part_000:123 and part_000:136).
NATIVE_SEND == "Enter"
NATIVE_NEWLINE == "Shift+Enter"

(***************************************************************************)
(* Keyboard events.                                                        *)
(***************************************************************************)
KeyEvents ==
    [key : {"Enter"}, shiftKey : BOOLEAN, altKey : BOOLEAN,
     ctrlKey : BOOLEAN, metaKey : BOOLEAN]
    \cup
    {[key |-> "a", shiftKey |-> FALSE, altKey |-> FALSE,
      ctrlKey |-> FALSE, metaKey |-> FALSE]}

\* isKeyMatch that does not look at the Meta key.
isKeyMatch_ignoresMeta(event, action) ==
    IF event.key # "Enter" THEN FALSE
    ELSE CASE action = "Enter" ->
                ~event.shiftKey /\ ~event.altKey /\ ~event.ctrlKey
           [] action = "Shift+Enter" ->
                event.shiftKey /\ ~event.altKey /\ ~event.ctrlKey
           [] action = "Alt+Enter" ->
                event.altKey /\ ~event.shiftKey /\ ~event.ctrlKey
           [] action = "Ctrl+Enter" ->
                event.ctrlKey /\ ~event.shiftKey /\ ~event.altKey
           [] OTHER -> FALSE

isKeyMatch(event, action) ==
    IF event.key # "Enter" THEN FALSE
    ELSE CASE action = "Enter" ->
                ~event.shiftKey /\ ~event.altKey /\ ~event.ctrlKey /\ ~event.metaKey
           [] action = "Shift+Enter" ->
                event.shiftKey /\ ~event.altKey /\ ~event.ctrlKey /\ ~event.metaKey
           [] action = "Alt+Enter" ->
                event.altKey /\ ~event.shiftKey /\ ~event.ctrlKey /\ ~event.metaKey
           [] action = "Ctrl+Enter" ->
                event.ctrlKey /\ ~event.shiftKey /\ ~event.altKey /\ ~event.metaKey
           [] OTHER -> FALSE

\* The second variant knows no Ctrl+Enter.
isKeyMatch_2(event, action) ==
    IF event.key # "Enter" THEN FALSE
    ELSE CASE action = "Enter" ->
                ~event.shiftKey /\ ~event.altKey /\ ~event.ctrlKey /\ ~event.metaKey
           [] action = "Shift+Enter" ->
                event.shiftKey /\ ~event.altKey /\ ~event.ctrlKey /\ ~event.metaKey
           [] action = "Alt+Enter" ->
                event.altKey /\ ~event.shiftKey /\ ~event.ctrlKey /\ ~event.metaKey
           [] OTHER -> FALSE

\* The KeyboardEvent constructor keeps only the members of its init
\* dictionary it knows: isFakeKeySwapEvent (part_000:62) is not on the event.
createFakeEvent(targetAction) ==
    [key |-> "Enter",
     shiftKey |-> (targetAction = "Shift+Enter"),
     altKey |-> (targetAction = "Alt+Enter"),
     ctrlKey |-> (targetAction = "Ctrl+Enter"),
     metaKey |-> FALSE]

createFakeEvent_2(targetAction) ==
    [key |-> "Enter",
     shiftKey |-> (targetAction = "Shift+Enter"),
     altKey |-> (targetAction = "Alt+Enter"),
     ctrlKey |-> FALSE,
     metaKey |-> FALSE]

(***************************************************************************)
(* keyHandler: what one call of the handler does to one event.             *)
(*   prevent  preventDefault() and stopImmediatePropagation() were called  *)
(*   click    the send button was clicked                                  *)
(*   fake     the target action of the synthetic event scheduled, or NONE  *)
(*   raise    isProcessingFakeEvent was set to true                        *)
(***************************************************************************)
Pass == [prevent |-> FALSE, click |-> FALSE, fake |-> NONE, raise |-> FALSE]

\* document.querySelector(...) of the three selectors finds a button, and it
\* is not disabled.
sendButtonUsable(button) == button = "enabled"

\* keyHandler without the early return for a newline chord of Shift+Enter.
keyHandler_convertsNative(event, settings, processing, button) ==
    IF event.key # "Enter" THEN Pass
    ELSE IF processing THEN Pass
    ELSE IF isKeyMatch(event, settings.newlineAction)
         THEN [prevent |-> TRUE, click |-> FALSE,
               fake |-> "Shift+Enter", raise |-> TRUE]
    ELSE IF isKeyMatch(event, settings.sendAction)
         THEN IF settings.sendAction = "Enter"
              THEN Pass
              ELSE [prevent |-> TRUE, click |-> sendButtonUsable(button),
                    fake |-> NONE, raise |-> FALSE]
    ELSE Pass

keyHandler(event, settings, processing, button) ==
    IF event.key # "Enter" THEN Pass
    ELSE IF processing THEN Pass
    ELSE IF isKeyMatch(event, settings.newlineAction)
         THEN IF settings.newlineAction = "Shift+Enter"
              THEN Pass
              ELSE [prevent |-> TRUE, click |-> FALSE,
                    fake |-> "Shift+Enter", raise |-> TRUE]
    ELSE IF isKeyMatch(event, settings.sendAction)
         THEN IF settings.sendAction = "Enter"
              THEN Pass
              ELSE [prevent |-> TRUE, click |-> sendButtonUsable(button),
                    fake |-> NONE, raise |-> FALSE]
    ELSE Pass

keyHandler_2(event, settings, processing, button) ==
    IF event.key # "Enter" THEN Pass
    ELSE LET targetAction ==
               IF isKeyMatch_2(event, settings.newlineAction)
               THEN IF settings.newlineAction = "Enter" THEN "Shift+Enter" ELSE NONE
               ELSE IF isKeyMatch_2(event, settings.sendAction)
               THEN IF settings.sendAction # "Enter" THEN "Enter" ELSE NONE
               ELSE NONE
         IN  IF targetAction = NONE THEN Pass
             ELSE IF targetAction = "Enter" /\ sendButtonUsable(button)
             THEN [prevent |-> TRUE, click |-> TRUE, fake |-> NONE, raise |-> FALSE]
             ELSE [prevent |-> TRUE, click |-> FALSE,
                   fake |-> targetAction, raise |-> FALSE]
(***************************************************************************)
(* The store: chrome.storage.sync, holding the two keys or neither.        *)
(***************************************************************************)
EmptyStore == [sendAction |-> UNSET, newlineAction |-> UNSET]

\* chrome.storage.sync.get(defaults): every key of defaults, with the stored
\* value where there is one and the default where there is none.
storageGet(st, defaults) ==
    [k \in DOMAIN defaults |-> IF st[k] = UNSET THEN defaults[k] ELSE st[k]]

\* JavaScript's !x for the values a setting can have.
falsy(x) == x = UNSET \/ x = ""

(***************************************************************************)
(* Settings UI (popup).                                                    *)
(***************************************************************************)
\* handleDuplicateKeys without the reassignment.
handleDuplicateKeys_keepsBoth(changedSelect, newValue, sel) == sel

\* handleDuplicateKeys taking the last unused option instead of the first.
handleDuplicateKeys_lastUnused(changedSelect, newValue, sel) ==
    LET other == IF changedSelect = "send-action" THEN "newlineAction" ELSE "sendAction"
        currentValues == {sel.sendAction, sel.newlineAction}
        last == CHOOSE i \in 1..Len(availableOptions) :
                    /\ availableOptions[i] \notin currentValues
                    /\ \A j \in (i + 1)..Len(availableOptions) :
                           availableOptions[j] \in currentValues
    IN  IF sel[other] = newValue
        THEN [sel EXCEPT ![other] = availableOptions[last]]
        ELSE sel

\* The two selects after handleDuplicateKeys; sel holds their values when
\* the change event is handled, the changed one being newValue already.
handleDuplicateKeys(changedSelect, newValue, sel) ==
    LET other == IF changedSelect = "send-action" THEN "newlineAction" ELSE "sendAction"
        currentValues == {sel.sendAction, sel.newlineAction}
        unused(option) == option \notin currentValues
        \* availableOptions.find(unused): the first such option, or undefined
        unusedOption ==
            IF \E i \in 1..Len(availableOptions) : unused(availableOptions[i])
            THEN availableOptions[CHOOSE i \in 1..Len(availableOptions) :
                     /\ unused(availableOptions[i])
                     /\ \A j \in 1..(i - 1) : ~unused(availableOptions[j])]
            ELSE UNSET
    IN  IF sel[other] = newValue /\ unusedOption # UNSET
        THEN [sel EXCEPT ![other] = unusedOption]
        ELSE sel

\* The browser sets the changed select to the chosen option before it fires
\* the change event.
selectOption(changedSelect, newValue, sel) ==
    IF changedSelect = "send-action"
    THEN [sel EXCEPT !.sendAction = newValue]
    ELSE [sel EXCEPT !.newlineAction = newValue]

\* tabs.query({url: ['https://chatgpt.com/*', 'https://chat.openai.com/*']})
urlMatches(s) == s \in {"chatgpt.com", "chat.openai.com"}

\* The site each tab shows: one tab of each target site, the others elsewhere.
siteOf(t) ==
    IF t = 1 THEN "chatgpt.com" ELSE IF t = 2 THEN "chat.openai.com" ELSE "example.com"
(***************************************************************************)
(* Editor elements (.ProseMirror).  An element keeps its properties while  *)
(* it is out of the document.                                              *)
(*   inDoc            the element is in the document                       *)
(*   keySwapAttached  dataset.keySwapAttached: UNSET, "true" or "false"    *)
(*   keySwapHandler   the handler stored on the element, or NONE           *)
(*   listeners        its registered capture keydown listeners, in order   *)
(* A handler is named "new" while it was created after the last            *)
(* SETTINGS_UPDATED message the document handled, "old" afterwards.        *)
(***************************************************************************)
FreshElement ==
    [inDoc |-> FALSE, keySwapAttached |-> UNSET, keySwapHandler |-> NONE,
     listeners |-> << >>]

\* seq without the first occurrence of x (removeEventListener).
removeListener(seq, x) ==
    IF \E i \in 1..Len(seq) : seq[i] = x
    THEN LET i == CHOOSE k \in 1..Len(seq) :
                      seq[k] = x /\ \A j \in 1..(k - 1) : seq[j] # x
         IN  SubSeq(seq, 1, i - 1) \o SubSeq(seq, i + 1, Len(seq))
    ELSE seq

\* removeExistingHandler forgetting removeEventListener.
removeExistingHandler_keepsListener(el) ==
    [el EXCEPT !.keySwapHandler = NONE, !.keySwapAttached = "false"]

removeExistingHandler(el) ==
    [el EXCEPT !.listeners = IF el.keySwapHandler # NONE
                             THEN removeListener(@, el.keySwapHandler) ELSE @,
               !.keySwapHandler = NONE,
               !.keySwapAttached = "false"]

removeExistingHandler_2(el) ==
    [el EXCEPT !.listeners = IF el.keySwapHandler # NONE
                             THEN removeListener(@, el.keySwapHandler) ELSE @,
               !.keySwapHandler = NONE]

attachKeyHandler(el) ==
    LET r == removeExistingHandler(el)
    IN  [r EXCEPT !.keySwapHandler = "new",
                  !.listeners = Append(@, "new"),
                  !.keySwapAttached = "true"]

attachKeyHandler_2(el) ==
    LET r == removeExistingHandler_2(el)
    IN  [r EXCEPT !.keySwapHandler = "new",
                  !.listeners = Append(@, "new"),
                  !.keySwapAttached = "true"]

\* document.querySelectorAll('.ProseMirror')
proseEditors(els) == {e \in DOMAIN els : els[e].inDoc}

\* document.querySelector('.ProseMirror'): the first in document order,
\* which is the order of the element numbers; 0 for null.
proseEditor(els) ==
    IF proseEditors(els) = {} THEN 0
    ELSE CHOOSE e \in proseEditors(els) : \A f \in proseEditors(els) : e <= f

\* The editors of a document after tryAttachHandler.
tryAttachHandler(els) ==
    [e \in DOMAIN els |->
        IF els[e].inDoc /\ els[e].keySwapAttached \in {UNSET, "false"}
        THEN attachKeyHandler(els[e]) ELSE els[e]]

\* !proseEditor.dataset.keySwapAttached is false for the string 'false'.
tryAttachHandler_2(els) ==
    [e \in DOMAIN els |->
        IF e = proseEditor(els) /\ falsy(els[e].keySwapAttached)
        THEN attachKeyHandler_2(els[e]) ELSE els[e]]

\* Every handler registered so far was created before the message.
ageHandlers(el) ==
    [el EXCEPT !.keySwapHandler = IF @ = NONE THEN NONE ELSE "old",
               !.listeners = [i \in 1..Len(@) |-> "old"]]

\* The editors of a document after the SETTINGS_UPDATED listener.
rebindEditors(els) ==
    [e \in DOMAIN els |->
        IF els[e].inDoc
        THEN attachKeyHandler(removeExistingHandler(ageHandlers(els[e])))
        ELSE ageHandlers(els[e])]

rebindEditors_2(els) ==
    [e \in DOMAIN els |->
        IF e = proseEditor(els)
        THEN attachKeyHandler_2([ageHandlers(els[e]) EXCEPT !.keySwapAttached = "false"])
        ELSE ageHandlers(els[e])]

(***************************************************************************)
(* What the host page's own keydown listener makes of what reaches it.     *)
(***************************************************************************)
\* The chord a key event is, or NONE: Enter with exactly the modifiers of
\* the chord's name.
chordOf(event) ==
    IF event.key # "Enter" \/ event.metaKey THEN NONE
    ELSE IF ~event.shiftKey /\ ~event.altKey /\ ~event.ctrlKey THEN "Enter"
    ELSE IF event.shiftKey /\ ~event.altKey /\ ~event.ctrlKey THEN "Shift+Enter"
    ELSE IF ~event.shiftKey /\ event.altKey /\ ~event.ctrlKey THEN "Alt+Enter"
    ELSE IF ~event.shiftKey /\ ~event.altKey /\ event.ctrlKey THEN "Ctrl+Enter"
    ELSE NONE

\* What the user meant by a key press, under the settings at the press.
pressRole(event, settings) ==
    IF chordOf(event) = NONE THEN "none"
    ELSE IF chordOf(event) = settings.newlineAction /\ chordOf(event) = settings.sendAction
    THEN "both"
    ELSE IF chordOf(event) = settings.newlineAction THEN "newline"
    ELSE IF chordOf(event) = settings.sendAction THEN "send"
    ELSE "none"

\* One thing the host page received: a keydown of some chord (via "native"
\* for the real event, "synthetic" for a dispatched one) or a click of the
\* send button.
hostTrigger(d) ==
    IF d.via = "click" THEN "send"
    ELSE IF d.chord = NATIVE_SEND THEN "send"
    ELSE IF d.chord = NATIVE_NEWLINE THEN "newline"
    ELSE "other"
(***************************************************************************)
(* State.                                                                  *)
(***************************************************************************)
VARIABLES
    variant,                \* 1 or 2: the content script of this build
    store,                  \* chrome.storage.sync
    selects,                \* popup: sendSelect.value and newlineSelect.value
    popupLoad,              \* popup: loadSettings "pending" or "done"
    saves,                  \* popup: the saveSettings calls under way, oldest first
    nChanges,               \* popup: change events so far
    installPc,              \* background: onInstalled "idle", or after its read
                            \*             "write" or "skip"
    tab,                    \* per tab: "loading" (no content script yet) or "ready"
    inflight,               \* per tab: messages sent to it and not yet handled
    loadPc,                 \* per tab: loadSettings "none", "pending", "read", "done"
    loadResult,             \* per tab: what the storage read returned
    currentSettings,        \* per tab
    isProcessingFakeEvent,  \* per tab
    editors,                \* per tab: its editor elements
    observerPending,        \* per tab: a mutation record awaits the observer
    timers,                 \* per tab: the timers set and not yet run, oldest first
    sendButton,             \* per tab: "absent", "disabled" or "enabled"
    lastKey                 \* per tab: the keydown dispatched on an editor in the
                            \*          latest step, if any, and what its listeners
                            \*          did to it

popupVars == <<selects, popupLoad, saves, nChanges>>
loadVars == <<loadPc, loadResult>>
domVars == <<editors, observerPending>>
keyVars == <<timers, sendButton>>

\* No keydown is dispatched in this step.
NoKey == [via |-> NONE, chord |-> NONE, role |-> NONE, outcome |-> Pass]

NoKeys == [t \in Tabs |-> NoKey]

vars == <<variant, store, selects, popupLoad, saves, nChanges, installPc, tab, inflight, loadPc, loadResult, currentSettings,
          isProcessingFakeEvent, editors, observerPending, timers, sendButton,
          lastKey>>

\* The answer of a storage read: the record read, or the read threw.
ReadOk(value) == [ok |-> TRUE, value |-> value]
ReadError == [ok |-> FALSE, value |-> EmptyStore]
NoResult == ReadError

SettingsUpdated(s) == [type |-> "SETTINGS_UPDATED", settings |-> s]

ContentTabs == {t \in Tabs : urlMatches(siteOf(t))}

\* The popup and the background script before anything happened.  The
\* popup's selects show whatever option its markup selects until
\* loadSettings has answered.
InitExtension ==
    /\ variant \in {1, 2}
    /\ popupLoad = "pending"
    /\ saves = << >>
    /\ nChanges = 0
    /\ installPc = "idle"

\* The documents: present is the set of editors in each document of the
\* target sites, started the tabs whose content script has just run, up to
\* the await of its loadSettings.
InitDocuments(present, started) ==
    /\ tab = [t \in Tabs |-> IF t \in started THEN "ready" ELSE "loading"]
    /\ inflight = [t \in Tabs |-> << >>]
    /\ loadPc = [t \in Tabs |-> IF t \in started THEN "pending" ELSE "none"]
    /\ loadResult = [t \in Tabs |-> NoResult]
    /\ currentSettings = [t \in Tabs |-> DEFAULT_SETTINGS(variant)]
    /\ isProcessingFakeEvent = [t \in Tabs |-> FALSE]
    /\ editors = [t \in Tabs |-> [e \in Editors |->
                     [FreshElement EXCEPT !.inDoc = t \in ContentTabs /\ e \in present]]]
    /\ observerPending = [t \in Tabs |-> FALSE]
    /\ timers = [t \in Tabs |-> << >>]
    /\ sendButton = [t \in Tabs |-> "absent"]
    /\ lastKey = NoKeys

\* The extension freshly installed, its popup open and showing the default
\* pair, the tabs loading.
InitSync ==
    /\ InitExtension
    /\ selects = DEFAULT_SETTINGS_popup
    /\ store = EmptyStore
    /\ InitDocuments({}, {})

\* The same with the popup's selects showing any pair of options.
InitPopup ==
    /\ InitExtension
    /\ selects \in SettingsSpace
    /\ store = EmptyStore
    /\ InitDocuments({}, {})

\* One document, whose content script has just run; the page has rendered
\* one editor.
Init ==
    /\ InitExtension
    /\ selects = DEFAULT_SETTINGS_popup
    /\ store = EmptyStore
    /\ InitDocuments({1}, {1})

\* The same before the page has rendered an editor.
InitDom ==
    /\ InitExtension
    /\ selects = DEFAULT_SETTINGS_popup
    /\ store = EmptyStore
    /\ InitDocuments({}, {1})

(***************************************************************************)
(* Background script: chrome.runtime.onInstalled.                          *)
(***************************************************************************)
InstallReasons == {"install", "update", "chrome_update"}

\* The test always succeeding.
needsDefaults_always(existingSettings) == TRUE

\* The test of existingSettings after the read.
needsDefaults(existingSettings) ==
    falsy(existingSettings.sendAction) \/ falsy(existingSettings.newlineAction)

\* The handler up to its await: the storage read, whose answer decides
\* what the handler does when it resumes.
OnInstalled(reason) ==
    /\ installPc = "idle"
    /\ reason \in {"install", "update"}
    /\ installPc' = IF needsDefaults(storageGet(store, DEFAULT_SETTINGS_background))
                    THEN "write" ELSE "skip"
    /\ lastKey' = NoKeys
    /\ UNCHANGED <<variant, store, popupVars, tab, inflight, loadVars,
                   currentSettings, isProcessingFakeEvent, domVars, keyVars>>

\* The store after the handler has resumed.
onInstalledWrite(st, pc) ==
    IF pc = "write" THEN DEFAULT_SETTINGS_background ELSE st

OnInstalledDone ==
    /\ installPc # "idle"
    /\ installPc' = "idle"
    /\ store' = onInstalledWrite(store, installPc)
    /\ lastKey' = NoKeys
    /\ UNCHANGED <<variant, popupVars, tab, inflight, loadVars,
                   currentSettings, isProcessingFakeEvent, domVars, keyVars>>

\* The read throws: the handler ends in its catch.
OnInstalledFailed ==
    /\ installPc # "idle"
    /\ installPc' = "idle"
    /\ lastKey' = NoKeys
    /\ UNCHANGED <<variant, store, popupVars, tab, inflight, loadVars,
                   currentSettings, isProcessingFakeEvent, domVars, keyVars>>

(***************************************************************************)
(* Popup: loadSettings, handleSettingChange, saveSettings.                 *)
(***************************************************************************)
PopupLoadSettings ==
    /\ popupLoad = "pending"
    /\ popupLoad' = "done"
    /\ selects' = storageGet(store, DEFAULT_SETTINGS_popup)
    /\ lastKey' = NoKeys
    /\ UNCHANGED <<variant, store, saves, nChanges, installPc, tab, inflight,
                   loadVars, currentSettings, isProcessingFakeEvent, domVars, keyVars>>

PopupLoadFailed ==
    /\ popupLoad = "pending"
    /\ popupLoad' = "done"
    /\ lastKey' = NoKeys
    /\ UNCHANGED <<variant, store, selects, saves, nChanges, installPc, tab,
                   inflight, loadVars, currentSettings, isProcessingFakeEvent,
                   domVars, keyVars>>

\* The settings handleSettingChange saves when the user picks newValue in
\* changedSelect while the selects show sel.
handleSettingChange(changedSelect, newValue, sel) ==
    handleDuplicateKeys(changedSelect, newValue, selectOption(changedSelect, newValue, sel))

\* A change event, up to the await in saveSettings: the storage write is
\* requested.
ChangeEvent(changedSelect, newValue) ==
    /\ nChanges < MaxChanges
    /\ newValue # (IF changedSelect = "send-action"
                   THEN selects.sendAction ELSE selects.newlineAction)
    /\ nChanges' = nChanges + 1
    /\ selects' = handleSettingChange(changedSelect, newValue, selects)
    /\ saves' = Append(saves, [settings |-> selects', pc |-> "set"])
    /\ lastKey' = NoKeys
    /\ UNCHANGED <<variant, store, popupLoad, installPc, tab, inflight,
                   loadVars, currentSettings, isProcessingFakeEvent, domVars, keyVars>>

\* The store serves the writes in the order they were requested.
nextWrite == CHOOSE i \in 1..Len(saves) :
                 saves[i].pc = "set" /\ \A j \in 1..(i - 1) : saves[j].pc # "set"

\* chrome.storage.sync.set answers: the record is stored, tabs.query is asked.
SaveStored ==
    /\ \E i \in 1..Len(saves) : saves[i].pc = "set"
    /\ store' = saves[nextWrite].settings
    /\ saves' = [saves EXCEPT ![nextWrite].pc = "query"]
    /\ lastKey' = NoKeys
    /\ UNCHANGED <<variant, selects, popupLoad, nChanges, installPc, tab,
                   inflight, loadVars, currentSettings, isProcessingFakeEvent,
                   domVars, keyVars>>

\* saveSettings that catches the failed write and goes on to notify.
SaveFailed_notifies ==
    /\ \E i \in 1..Len(saves) : saves[i].pc = "set"
    /\ saves' = [saves EXCEPT ![nextWrite].pc = "query"]
    /\ lastKey' = NoKeys
    /\ UNCHANGED <<variant, store, selects, popupLoad, nChanges, installPc, tab,
                   inflight, loadVars, currentSettings, isProcessingFakeEvent,
                   domVars, keyVars>>

\* chrome.storage.sync.set throws: saveSettings ends in its catch.
SaveFailed ==
    /\ \E i \in 1..Len(saves) : saves[i].pc = "set"
    /\ saves' = SubSeq(saves, 1, nextWrite - 1) \o SubSeq(saves, nextWrite + 1, Len(saves))
    /\ lastKey' = NoKeys
    /\ UNCHANGED <<variant, store, selects, popupLoad, nChanges, installPc, tab,
                   inflight, loadVars, currentSettings, isProcessingFakeEvent,
                   domVars, keyVars>>

\* The tabs chrome.tabs.query returns: the open tabs of the two sites.
queryTabs == {t \in Tabs : urlMatches(siteOf(t))}

\* Only the first of the tabs is sent the message.
messageTargets_firstOnly(tabs) ==
    {t \in tabs : \A u \in tabs : t <= u}

\* The tabs saveSettings calls chrome.tabs.sendMessage for: tabs.map runs
\* every call before any of them answers.
messageTargets(tabs) == tabs

\* saveSettings that does not await the store write before it notifies.
SaveNotify_early ==
    /\ saves # << >>
    /\ inflight' = [t \in Tabs |->
                      IF t \in messageTargets(queryTabs)
                      THEN Append(inflight[t], SettingsUpdated(saves[1].settings))
                      ELSE inflight[t]]
    /\ saves' = Tail(saves)
    /\ lastKey' = NoKeys
    /\ UNCHANGED <<variant, store, selects, popupLoad, nChanges, installPc, tab,
                   loadVars, currentSettings, isProcessingFakeEvent, domVars, keyVars>>

\* tabs.query answers: a message is sent to each tab.
SaveNotify ==
    /\ saves # << >>
    /\ saves[1].pc = "query"
    /\ inflight' = [t \in Tabs |->
                      IF t \in messageTargets(queryTabs)
                      THEN Append(inflight[t], SettingsUpdated(saves[1].settings))
                      ELSE inflight[t]]
    /\ saves' = Tail(saves)
    /\ lastKey' = NoKeys
    /\ UNCHANGED <<variant, store, selects, popupLoad, nChanges, installPc, tab,
                   loadVars, currentSettings, isProcessingFakeEvent, domVars, keyVars>>
(***************************************************************************)
(* Content script: start, loadSettings, the SETTINGS_UPDATED listener.     *)
(***************************************************************************)
\* The content script runs: its listeners are registered and loadSettings
\* is called, up to its await.
ContentScriptStart(t) ==
    /\ tab[t] = "loading"
    /\ urlMatches(siteOf(t))
    /\ tab' = [tab EXCEPT ![t] = "ready"]
    /\ currentSettings' = [currentSettings EXCEPT ![t] = DEFAULT_SETTINGS(variant)]
    /\ isProcessingFakeEvent' = [isProcessingFakeEvent EXCEPT ![t] = FALSE]
    /\ loadPc' = [loadPc EXCEPT ![t] = "pending"]
    /\ lastKey' = NoKeys
    /\ UNCHANGED <<variant, store, popupVars, installPc, inflight, loadResult,
                   domVars, keyVars>>

\* The store reads the record for the content script's loadSettings.
LoadRead(t) ==
    /\ loadPc[t] = "pending"
    /\ loadPc' = [loadPc EXCEPT ![t] = "read"]
    /\ loadResult' = [loadResult EXCEPT ![t] =
                         ReadOk(storageGet(store, DEFAULT_SETTINGS(variant)))]
    /\ lastKey' = NoKeys
    /\ UNCHANGED <<variant, store, popupVars, installPc, tab, inflight,
                   currentSettings, isProcessingFakeEvent, domVars, keyVars>>

LoadReadFailed(t) ==
    /\ loadPc[t] = "pending"
    /\ loadPc' = [loadPc EXCEPT ![t] = "read"]
    /\ loadResult' = [loadResult EXCEPT ![t] = ReadError]
    /\ lastKey' = NoKeys
    /\ UNCHANGED <<variant, store, popupVars, installPc, tab, inflight,
                   currentSettings, isProcessingFakeEvent, domVars, keyVars>>

\* loadSettings whose catch keeps what the failed read left.
loadSettings_noFallback(v, result) == result.value

\* currentSettings after loadSettings, given what the read returned.
loadSettings(v, result) ==
    IF result.ok THEN result.value ELSE DEFAULT_SETTINGS(v)

TryAttach(v, els) == IF v = 1 THEN tryAttachHandler(els) ELSE tryAttachHandler_2(els)

\* loadSettings resumes after its await, and then(tryAttachHandler) runs.
LoadDone(t) ==
    /\ loadPc[t] = "read"
    /\ loadPc' = [loadPc EXCEPT ![t] = "done"]
    /\ loadResult' = [loadResult EXCEPT ![t] = NoResult]
    /\ currentSettings' = [currentSettings EXCEPT ![t] = loadSettings(variant, loadResult[t])]
    /\ editors' = [editors EXCEPT ![t] = TryAttach(variant, @)]
    /\ lastKey' = NoKeys
    /\ UNCHANGED <<variant, store, popupVars, installPc, tab, inflight,
                   isProcessingFakeEvent, observerPending, keyVars>>

Rebind(v, els) == IF v = 1 THEN rebindEditors(els) ELSE rebindEditors_2(els)

\* isProcessingFakeEvent after the listener: only the first variant has
\* the flag, and resets it.
flagAfterUpdate(v, processing) == IF v = 1 THEN FALSE ELSE processing

\* The chrome.runtime.onMessage listener of tab t is called with message.
OnMessage(t, message) ==
    IF message.type = "SETTINGS_UPDATED"
    THEN /\ currentSettings' = [currentSettings EXCEPT ![t] = message.settings]
         /\ isProcessingFakeEvent' =
                [isProcessingFakeEvent EXCEPT ![t] = flagAfterUpdate(variant, @)]
         /\ editors' = [editors EXCEPT ![t] = Rebind(variant, @)]
    ELSE UNCHANGED <<currentSettings, isProcessingFakeEvent, editors>>

\* The message at the head of the tab's queue reaches its listener.
Deliver(t) ==
    /\ inflight[t] # << >>
    /\ tab[t] = "ready"
    /\ inflight' = [inflight EXCEPT ![t] = Tail(@)]
    /\ OnMessage(t, Head(inflight[t]))
    /\ lastKey' = NoKeys
    /\ UNCHANGED <<variant, store, popupVars, installPc, tab, loadVars,
                   observerPending, keyVars>>

\* The tab has no listener yet: sendMessage rejects, saveSettings skips it.
SendFailed(t) ==
    /\ inflight[t] # << >>
    /\ tab[t] = "loading"
    /\ inflight' = [inflight EXCEPT ![t] = Tail(@)]
    /\ lastKey' = NoKeys
    /\ UNCHANGED <<variant, store, popupVars, installPc, tab, loadVars,
                   currentSettings, isProcessingFakeEvent, domVars, keyVars>>

\* Some popup's saveSettings has sent the document settings s, and the
\* message reaches the listener (the environment of a single document).
ReceiveUpdate(t, s) ==
    /\ tab[t] = "ready"
    /\ OnMessage(t, SettingsUpdated(s))
    /\ lastKey' = NoKeys
    /\ UNCHANGED <<variant, store, popupVars, installPc, tab, inflight, loadVars,
                   observerPending, keyVars>>

(***************************************************************************)
(* The host page: its DOM and its send button.                             *)
(***************************************************************************)
InsertEditor(t, e) ==
    /\ tab[t] = "ready"
    /\ ~editors[t][e].inDoc
    /\ editors' = [editors EXCEPT ![t][e].inDoc = TRUE]
    /\ observerPending' = [observerPending EXCEPT ![t] = TRUE]
    /\ lastKey' = NoKeys
    /\ UNCHANGED <<variant, store, popupVars, installPc, tab, inflight,
                   loadVars, currentSettings, isProcessingFakeEvent, keyVars>>

RemoveEditor(t, e) ==
    /\ tab[t] = "ready"
    /\ editors[t][e].inDoc
    /\ editors' = [editors EXCEPT ![t][e].inDoc = FALSE]
    /\ observerPending' = [observerPending EXCEPT ![t] = TRUE]
    /\ lastKey' = NoKeys
    /\ UNCHANGED <<variant, store, popupVars, installPc, tab, inflight,
                   loadVars, currentSettings, isProcessingFakeEvent, keyVars>>

\* The MutationObserver's callback, tryAttachHandler.
ObserverCallback(t) ==
    /\ observerPending[t]
    /\ observerPending' = [observerPending EXCEPT ![t] = FALSE]
    /\ editors' = [editors EXCEPT ![t] = TryAttach(variant, @)]
    /\ lastKey' = NoKeys
    /\ UNCHANGED <<variant, store, popupVars, installPc, tab, inflight,
                   loadVars, currentSettings, isProcessingFakeEvent, keyVars>>

\* The page shows, hides, enables or disables its send button.
SendButtonChange(t, b) ==
    /\ tab[t] = "ready"
    /\ sendButton[t] # b
    /\ sendButton' = [sendButton EXCEPT ![t] = b]
    /\ UNCHANGED <<variant, store, popupVars, installPc, tab, inflight,
                   loadVars, currentSettings, isProcessingFakeEvent, domVars,
                   timers>>
    /\ lastKey' = NoKeys
(***************************************************************************)
(* Key events in a document.                                               *)
(***************************************************************************)
KeyHandler(v, event, settings, processing, button) ==
    IF v = 1 THEN keyHandler(event, settings, processing, button)
    ELSE keyHandler_2(event, settings, processing, button)

CreateFakeEvent(v, targetAction) ==
    IF v = 1 THEN createFakeEvent(targetAction) ELSE createFakeEvent_2(targetAction)

\* What the capture listeners of element el do to an event.  The first
\* listener that calls stopImmediatePropagation keeps the others from
\* running; one that returns at once leaves the state as it was, so the
\* next one decides the same.
dispatch(v, el, event, settings, processing, button) ==
    IF el.listeners = << >> THEN Pass
    ELSE KeyHandler(v, event, settings, processing, button)

\* setTimeout(..., 10); role tells what the user meant by the key press
\* the timer comes from.
DispatchTimer(e, action, role) ==
    [kind |-> "dispatch", rem |-> DISPATCH_DELAY, editor |-> e,
     action |-> action, role |-> role]

\* setTimeout(..., 50)
ResetTimer ==
    [kind |-> "reset", rem |-> RESET_DELAY, editor |-> 0,
     action |-> NONE, role |-> NONE]

\* The keydown dispatched in a step: via "native" for a key the user
\* pressed, "synthetic" for the event of a dispatch timer; its chord; what
\* the user meant by the key press it comes from; and the listeners'
\* outcome.
handled(o, event, via, role) ==
    [via |-> via, chord |-> chordOf(event), role |-> role, outcome |-> o]

\* What the host page receives of a keydown: the click of its send button,
\* and the event itself unless it was stopped.
received(k) ==
    (IF k.outcome.click
     THEN <<[via |-> "click", chord |-> NONE, role |-> k.role]>>
     ELSE << >>)
    \o
    (IF k.via = NONE \/ k.outcome.prevent
     THEN << >>
     ELSE <<[via |-> k.via, chord |-> k.chord, role |-> k.role]>>)

\* What the host page received in the latest step, per tab, in order.
hostOut == [t \in Tabs |-> received(lastKey[t])]

\* The timers an outcome sets.
scheduled(o, e, role) ==
    IF o.fake # NONE THEN <<DispatchTimer(e, o.fake, role)>> ELSE << >>

\* The user presses a key in editor e.
KeyPress(t, e, event) ==
    /\ tab[t] = "ready"
    /\ editors[t][e].inDoc
    /\ LET role == pressRole(event, currentSettings[t])
           o == dispatch(variant, editors[t][e], event, currentSettings[t],
                         isProcessingFakeEvent[t], sendButton[t])
       IN  /\ Len(timers[t]) + Len(scheduled(o, e, role)) <= MaxTimers
           /\ isProcessingFakeEvent' =
                  [isProcessingFakeEvent EXCEPT ![t] = @ \/ o.raise]
           /\ timers' = [timers EXCEPT ![t] = @ \o scheduled(o, e, role)]
           /\ lastKey' = [NoKeys EXCEPT ![t] = handled(o, event, "native", role)]
    /\ UNCHANGED <<variant, store, popupVars, installPc, tab, inflight,
                   loadVars, currentSettings, domVars, sendButton>>

\* Timers of one delay run in the order they were set.
due(ts, i) ==
    /\ ts[i].rem = 0
    /\ \A j \in 1..(i - 1) : ts[j].kind # ts[i].kind

without(ts, i) == SubSeq(ts, 1, i - 1) \o SubSeq(ts, i + 1, Len(ts))

\* The dispatch callback sets no guard timer.
guardReset_never(v) == << >>

\* The guard timer the dispatch callback sets after dispatchEvent.
guardReset(v) == IF v = 1 THEN <<ResetTimer>> ELSE << >>

\* The 10 ms timer runs: the synthetic event is dispatched on the target of
\* the key press, and the listeners of its editor see it.
DispatchFire(t, i) ==
    /\ i \in 1..Len(timers[t])
    /\ timers[t][i].kind = "dispatch"
    /\ due(timers[t], i)
    /\ LET tm == timers[t][i]
           fakeEvent == CreateFakeEvent(variant, tm.action)
           o == dispatch(variant, editors[t][tm.editor], fakeEvent, currentSettings[t],
                         isProcessingFakeEvent[t], sendButton[t])
       IN  /\ isProcessingFakeEvent' =
                  [isProcessingFakeEvent EXCEPT ![t] = @ \/ o.raise]
           /\ timers' = [timers EXCEPT ![t] =
                  without(@, i) \o scheduled(o, tm.editor, tm.role) \o guardReset(variant)]
           /\ lastKey' = [NoKeys EXCEPT ![t] = handled(o, fakeEvent, "synthetic", tm.role)]
    /\ UNCHANGED <<variant, store, popupVars, installPc, tab, inflight,
                   loadVars, currentSettings, domVars, sendButton>>

\* The 50 ms timer runs.
ResetFire(t, i) ==
    /\ i \in 1..Len(timers[t])
    /\ timers[t][i].kind = "reset"
    /\ due(timers[t], i)
    /\ isProcessingFakeEvent' = [isProcessingFakeEvent EXCEPT ![t] = FALSE]
    /\ timers' = [timers EXCEPT ![t] = without(@, i)]
    /\ UNCHANGED <<variant, store, popupVars, installPc, tab, inflight,
                   loadVars, currentSettings, domVars, sendButton>>
    /\ lastKey' = NoKeys

\* Time passes, while no timer is due.
Tick ==
    /\ \E t \in Tabs : timers[t] # << >>
    /\ \A t \in Tabs : \A i \in 1..Len(timers[t]) : timers[t][i].rem >= DISPATCH_DELAY
    /\ timers' = [t \in Tabs |->
                    [i \in 1..Len(timers[t]) |->
                        [timers[t][i] EXCEPT !.rem = @ - DISPATCH_DELAY]]]
    /\ UNCHANGED <<variant, store, popupVars, installPc, tab, inflight,
                   loadVars, currentSettings, isProcessingFakeEvent, domVars,
                   sendButton>>
    /\ lastKey' = NoKeys

(***************************************************************************)
(* Specifications.                                                         *)
(***************************************************************************)
\* One document: its key events and its timers, and the messages it is sent.
Next ==
    \/ \E t \in Tabs : LoadRead(t)
    \/ \E t \in Tabs : LoadReadFailed(t)
    \/ \E t \in Tabs : LoadDone(t)
    \/ \E t \in Tabs, s \in ValidSettings : ReceiveUpdate(t, s)
    \/ \E t \in Tabs, b \in {"absent", "disabled", "enabled"} : SendButtonChange(t, b)
    \/ \E t \in Tabs, e \in Editors, event \in KeyEvents : KeyPress(t, e, event)
    \/ \E t \in Tabs, i \in 1..MaxTimers : DispatchFire(t, i)
    \/ \E t \in Tabs, i \in 1..MaxTimers : ResetFire(t, i)
    \/ Tick

Spec == Init /\ [][Next]_vars

\* The browser runs a timer callback once its delay has passed: time does
\* not stop while timers are set, and a due callback is not put off forever.
TimersFire ==
    /\ WF_vars(Tick)
    /\ \A t \in Tabs : WF_vars(\E i \in 1..MaxTimers : DispatchFire(t, i))
    /\ \A t \in Tabs : WF_vars(\E i \in 1..MaxTimers : ResetFire(t, i))

\* The same document, with timers that fire.
SpecLive == Init /\ [][Next]_vars /\ TimersFire

\* One document whose listener is sent any settings object: the listener
\* stores message.settings as it comes, equal chords included.
NextAny ==
    \/ \E t \in Tabs : LoadRead(t)
    \/ \E t \in Tabs : LoadReadFailed(t)
    \/ \E t \in Tabs : LoadDone(t)
    \/ \E t \in Tabs, s \in SettingsSpace : ReceiveUpdate(t, s)
    \/ \E t \in Tabs, b \in {"absent", "disabled", "enabled"} : SendButtonChange(t, b)
    \/ \E t \in Tabs, e \in Editors, event \in KeyEvents : KeyPress(t, e, event)
    \/ \E t \in Tabs, i \in 1..MaxTimers : DispatchFire(t, i)
    \/ \E t \in Tabs, i \in 1..MaxTimers : ResetFire(t, i)
    \/ Tick

SpecAny == Init /\ [][NextAny]_vars

\* One document: its editors coming and going, and its handlers.
NextDom ==
    \/ \E t \in Tabs : LoadRead(t)
    \/ \E t \in Tabs : LoadReadFailed(t)
    \/ \E t \in Tabs : LoadDone(t)
    \/ \E t \in Tabs, s \in ValidSettings : ReceiveUpdate(t, s)
    \/ \E t \in Tabs, e \in Editors : InsertEditor(t, e)
    \/ \E t \in Tabs, e \in Editors : RemoveEditor(t, e)
    \/ \E t \in Tabs : ObserverCallback(t)

SpecDom == InitDom /\ [][NextDom]_vars

\* The extension as a whole: the store, the popup, the background script
\* and the tabs' settings caches.
NextSync ==
    \/ \E reason \in InstallReasons : OnInstalled(reason)
    \/ OnInstalledDone
    \/ OnInstalledFailed
    \/ PopupLoadSettings
    \/ PopupLoadFailed
    \/ \E c \in {"send-action", "newline-action"}, v \in Chords : ChangeEvent(c, v)
    \/ SaveStored
    \/ SaveFailed
    \/ SaveNotify
    \/ \E t \in Tabs : ContentScriptStart(t)
    \/ \E t \in Tabs : LoadRead(t)
    \/ \E t \in Tabs : LoadDone(t)
    \/ \E t \in Tabs : Deliver(t)
    \/ \E t \in Tabs : SendFailed(t)

SpecSync == InitSync /\ [][NextSync]_vars

\* The popup, the background script and the store, while no tab has run
\* its content script.
NextPopup ==
    \/ \E reason \in InstallReasons : OnInstalled(reason)
    \/ OnInstalledDone
    \/ OnInstalledFailed
    \/ PopupLoadSettings
    \/ PopupLoadFailed
    \/ \E c \in {"send-action", "newline-action"}, v \in Chords : ChangeEvent(c, v)
    \/ SaveStored
    \/ SaveFailed
    \/ SaveNotify
    \/ \E t \in Tabs : SendFailed(t)

SpecPopup == InitPopup /\ [][NextPopup]_vars

(***************************************************************************)
(* Properties.                                                             *)
(***************************************************************************)
Distinct(s) == s.sendAction # s.newlineAction

NativeSettings == [sendAction |-> NATIVE_SEND, newlineAction |-> NATIVE_NEWLINE]

CustomSettings == [sendAction |-> "Alt+Enter", newlineAction |-> "Enter"]

\* Every editor in the document of tab t has a keydown handler.
Bound(t) == \A e \in Editors : editors[t][e].inDoc => editors[t][e].listeners # << >>

\* C1: whatever the (distinct) settings and however presses and timers
\* interleave, once the editors have their handler nothing the host page
\* receives of a press of the newline chord is a send trigger (plain Enter
\* keydown, click of the send button), and nothing it receives of a press of
\* the send chord is a newline trigger (Shift+Enter keydown).
C1_NoCrossTrigger ==
    \A t \in Tabs : \A i \in 1..Len(hostOut[t]) : Bound(t) =>
        /\ hostOut[t][i].role = "newline" => hostTrigger(hostOut[t][i]) # "send"
        /\ hostOut[t][i].role = "send" => hostTrigger(hostOut[t][i]) # "newline"

\* C2: in the first variant, the listeners leave every synthetic keydown
\* the 10 ms timer dispatches alone: none suppresses it, schedules another
\* synthetic event for it or clicks the send button, whatever
\* SETTINGS_UPDATED messages arrived since the key press.
C2_SyntheticUntouched ==
    variant = 1 =>
        \A t \in Tabs : lastKey[t].via = "synthetic" => lastKey[t].outcome = Pass

\* C3: while currentSettings is (Enter, Shift+Enter), every keydown, pressed
\* with any modifiers or dispatched by a timer, in either state of the guard
\* flag, reaches the host page as it is: the listeners do not suppress it,
\* raise the guard flag, schedule a synthetic event or click the send
\* button.
C3_NativeTransparent ==
    \A t \in Tabs :
        (currentSettings[t] = NativeSettings /\ lastKey[t].via # NONE) =>
            /\ lastKey[t].outcome = Pass
            /\ hostOut[t] = <<[via |-> lastKey[t].via, chord |-> lastKey[t].chord,
                               role |-> lastKey[t].role]>>

\* A key was pressed under the native settings while the guard flag was up.
C3_Witness ==
    \E t \in Tabs :
        /\ currentSettings[t] = NativeSettings
        /\ isProcessingFakeEvent[t]
        /\ hostOut[t] # << >>
        /\ hostOut[t][1].via = "native"
        /\ hostOut[t][1].chord = "Shift+Enter"

\* C4: sendAction and newlineAction differ in the record the store holds, in
\* every SETTINGS_UPDATED message in flight and in currentSettings of every
\* tab, after any change events, install events, loads and deliveries.
C4_DistinctChords ==
    /\ store # EmptyStore => Distinct(store)
    /\ \A t \in Tabs : \A i \in 1..Len(inflight[t]) : Distinct(inflight[t][i].settings)
    /\ \A t \in Tabs : Distinct(currentSettings[t])

\* The popup's record is stored, one tab took it from its message and
\* another tab's message is still in flight.
C4_Witness ==
    /\ store \notin {EmptyStore, DEFAULT_SETTINGS_1, DEFAULT_SETTINGS_2}
    /\ \E t \in Tabs : tab[t] = "ready" /\ inflight[t] = << >> /\ currentSettings[t] = store
    /\ \E t \in Tabs : inflight[t] # << >> /\ inflight[t][1].settings = store

C6_OneHandler ==
    /\ [](\A t \in Tabs, e \in Editors :
              /\ Len(editors[t][e].listeners) <= 1
              /\ editors[t][e].keySwapAttached = "true"
                     <=> editors[t][e].listeners # << >>)
    /\ [][\A t \in Tabs, s \in ValidSettings :
            (variant = 1 /\ ReceiveUpdate(t, s)) =>
                /\ currentSettings'[t] = s
                /\ \A e \in Editors :
                      editors'[t][e].inDoc => editors'[t][e].listeners = <<"new">>]_vars

\* The first variant's document holds two editors, one with a handler from
\* before the last message that is out of the document, the other rebound.
C6_Witness ==
    /\ variant = 1
    /\ \E t \in Tabs, e, f \in Editors :
          /\ editors[t][e].inDoc /\ editors[t][e].listeners = <<"new">>
          /\ ~editors[t][f].inDoc /\ editors[t][f].listeners = <<"old">>

\* C7: under (sendAction Alt+Enter, newlineAction Enter), once the editors
\* have their handler, a plain Enter press is suppressed and schedules one
\* synthetic Shift+Enter, which reaches the host page; an Alt+Enter press is
\* suppressed and clicks the send button when it is found and enabled, and
\* schedules a synthetic plain Enter, which reaches the host page, when the
\* button is not found.
C7_CustomMapping ==
    \A t \in Tabs :
        (currentSettings[t] = CustomSettings /\ Bound(t)) =>
            LET k == lastKey[t]
            IN  /\ (k.via = "native" /\ k.chord = "Enter") =>
                       /\ k.outcome.prevent /\ ~k.outcome.click
                       /\ k.outcome.fake = "Shift+Enter"
                /\ (k.via = "native" /\ k.chord = "Alt+Enter"
                        /\ sendButton[t] = "enabled") =>
                       /\ k.outcome.prevent /\ k.outcome.click
                       /\ k.outcome.fake = NONE
                /\ (k.via = "native" /\ k.chord = "Alt+Enter"
                        /\ sendButton[t] = "absent") =>
                       /\ k.outcome.prevent /\ ~k.outcome.click
                       /\ k.outcome.fake = "Enter"
                /\ (k.via = "synthetic"
                        /\ <<k.role, k.chord>> \in {<<"newline", "Shift+Enter">>,
                                                    <<"send", "Enter">>}) =>
                       hostOut[t] = <<[via |-> "synthetic", chord |-> k.chord,
                                       role |-> k.role]>>

\* Nothing is pending: no write, no tabs query, no message, no install
\* handler, no load.
Quiescent ==
    /\ saves = << >>
    /\ installPc = "idle"
    /\ \A t \in Tabs : inflight[t] = << >> /\ loadPc[t] \notin {"pending", "read"}

\* C8: once nothing is pending, currentSettings of every tab whose content
\* script has loaded its settings is what the store holds (its defaults
\* where the store holds nothing).
C8_CacheConsistent ==
    Quiescent =>
        \A t \in Tabs :
            loadPc[t] = "done" =>
                currentSettings[t] = storageGet(store, DEFAULT_SETTINGS(variant))

\* C9: when saveSettings has stored a change and its tabs query answers, the
\* SETTINGS_UPDATED message with the settings of that change is sent to
\* every tab of the two sites and to no other; a save that has stored its
\* record waits for nothing else; and a send that fails takes just that
\* tab's message away: the other tabs' messages stay, nothing is sent again.
C9_NotifyAll ==
    [][/\ SaveNotify =>
            \A t \in Tabs :
                inflight'[t] = IF urlMatches(siteOf(t))
                               THEN Append(inflight[t], SettingsUpdated(saves[1].settings))
                               ELSE inflight[t]
       /\ SaveStored => \E i \in 1..Len(saves') :
                            saves'[i].pc = "query" /\ saves'[i].settings = store'
       /\ \A t \in Tabs :
            SendFailed(t) =>
                /\ saves' = saves
                /\ \A u \in Tabs : inflight'[u] = IF u = t THEN Tail(inflight[t])
                                                  ELSE inflight[u]]_vars

\* The message to the first tab failed, the second tab's is in flight.
C9_Witness ==
    /\ saves = << >>
    /\ store # EmptyStore
    /\ tab[1] = "loading" /\ inflight[1] = << >>
    /\ inflight[2] = <<SettingsUpdated(store)>>

\* One run of the onInstalled handler on a store nobody else writes.
onInstalledRun(st) ==
    onInstalledWrite(st, IF needsDefaults(storageGet(st, DEFAULT_SETTINGS_background))
                         THEN "write" ELSE "skip")

C11_ReadFailureDefaults ==
    [][\A t \in Tabs :
         (LoadDone(t) /\ ~loadResult[t].ok) =>
            /\ currentSettings'[t] = DEFAULT_SETTINGS(variant)
            /\ \A event \in KeyEvents, processing \in BOOLEAN,
                  button \in {"absent", "disabled", "enabled"} :
                  KeyHandler(variant, event, currentSettings'[t], processing, button)
                      = KeyHandler(variant, event, DEFAULT_SETTINGS(variant),
                                   processing, button)]_vars

\* The read has failed and loadSettings is about to resume, while a
\* SETTINGS_UPDATED message has put other settings in currentSettings.
C11_Witness ==
    \E t \in Tabs :
        /\ loadPc[t] = "read" /\ ~loadResult[t].ok
        /\ currentSettings[t] # DEFAULT_SETTINGS(variant)

\* C12: whenever the guard flag isProcessingFakeEvent of a document is up,
\* it is down again at some later time, provided the timers fire: no
\* sequence of key presses and SETTINGS_UPDATED messages keeps it up forever.
C12_FlagLowered ==
    \A t \in Tabs : isProcessingFakeEvent[t] ~> ~isProcessingFakeEvent[t]

\* keyHandler has raised the flag for a press of the newline chord, and the
\* synthetic event is still to be dispatched.
C12_Witness ==
    \E t \in Tabs :
        /\ isProcessingFakeEvent[t]
        /\ \E i \in 1..Len(timers[t]) : timers[t][i].kind = "dispatch"

\* C13: a key press that is not Enter, or whose modifiers are those of
\* neither the newline chord nor the send chord of currentSettings, passes
\* through unmodified: the listeners do not stop it, click nothing and
\* schedule no synthetic event, and the step leaves the guard flag,
\* currentSettings, the editors' handler bindings and the timers as they were.
C13_NonMatchingPasses ==
    [][\A t \in Tabs :
         (lastKey'[t].via = "native" /\ lastKey'[t].role = "none") =>
            /\ lastKey'[t].outcome = Pass
            /\ hostOut'[t] = <<[via |-> "native", chord |-> lastKey'[t].chord,
                                role |-> "none"]>>
            /\ UNCHANGED <<isProcessingFakeEvent, currentSettings, editors, timers>>]_vars

\* Enter with modifiers that are no chord (Ctrl+Shift+Enter, Meta+Enter)
\* has been pressed in an editor with a handler, under settings that remap
\* plain Enter, while the guard flag is down.
C13_Witness ==
    \E t \in Tabs :
        /\ Bound(t) /\ ~isProcessingFakeEvent[t]
        /\ currentSettings[t].newlineAction = "Enter"
        /\ lastKey[t].via = "native" /\ lastKey[t].role = "none"
        /\ lastKey[t].chord = NONE
        /\ \E e \in Editors : editors[t][e].inDoc

\* C14: in the first variant, once the editors have their handler, a press
\* of chord c under settings with sendAction = newlineAction = c is handled
\* as newline and never as send: for c = Shift+Enter the event passes
\* unmodified, for every other c it is stopped and a synthetic Shift+Enter
\* is scheduled in its place; the send button is not clicked and nothing
\* the host page receives of the press is a send trigger.
C14_TieIsNewline ==
    \A t \in Tabs :
        (variant = 1 /\ Bound(t)
            /\ lastKey[t].via = "native" /\ lastKey[t].role = "both") =>
            /\ ~lastKey[t].outcome.click
            /\ \A i \in 1..Len(hostOut[t]) : hostTrigger(hostOut[t][i]) # "send"
            /\ IF lastKey[t].chord = "Shift+Enter"
               THEN lastKey[t].outcome = Pass
               ELSE lastKey[t].outcome.prevent /\ lastKey[t].outcome.fake = "Shift+Enter"

\* C15: key presses of a document are processed in arrival order: when the
\* host page receives the outcome of a key press (the event itself or the
\* click of the send button), no earlier key press on the editor (the
\* documents of Spec have one) still has its outcome, the synthetic event of
\* a dispatch timer, to come.
C15_ArrivalOrder ==
    \A t \in Tabs :
        (lastKey[t].via = "native" /\ hostOut[t] # << >>) =>
            \A i \in 1..Len(timers[t]) : timers[t][i].kind # "dispatch"

\* C16: in the Settings UI the store write of a change completes before any
\* SETTINGS_UPDATED message of that change is sent.  A message is put in
\* flight only by the saveSettings call at the head of the queue, with that
\* call's settings, once its store write has completed; a call gets past
\* its store write only in a step that leaves its settings in the store;
\* so while a message is in flight the store has been written.
C16_StoredBeforeSent ==
    /\ [](\A t \in Tabs : inflight[t] # << >> => store # EmptyStore)
    /\ [][/\ \A t \in Tabs :
               Len(inflight'[t]) > Len(inflight[t]) =>
                  /\ saves # << >>
                  /\ saves[1].pc = "query"
                  /\ inflight'[t] = Append(inflight[t], SettingsUpdated(saves[1].settings))
          /\ \A i \in 1..Len(saves) :
               (saves[i].pc = "set" /\ Len(saves') = Len(saves)
                   /\ saves'[i].pc = "query") =>
                  store' = saves[i].settings]_vars

\* A tab whose own load has not read the store holds in currentSettings
\* the stored settings, which it received by message.
C16_Witness ==
    \E t \in Tabs :
        /\ tab[t] = "ready" /\ loadPc[t] = "pending"
        /\ store # EmptyStore
        /\ currentSettings[t] = store
        /\ currentSettings[t] # DEFAULT_SETTINGS(variant)

\* C17: every editor element that is in the document has a key handler once
\* the mutation observer callback has run after the last insertion and the
\* initial load has finished: every editor, not only the first.
C17_EveryEditorBound ==
    \A t \in Tabs :
        (tab[t] = "ready" /\ loadPc[t] = "done" /\ ~observerPending[t]) => Bound(t)

\* C18: no key handler is attached to an editor before the initial
\* loadSettings of the content script has completed: when the mutation
\* observer callback runs while the storage read is pending, or has answered
\* without loadSettings having resumed, it leaves no editor with a listener.
C18_NoHandlerBeforeLoad ==
    [][\A t \in Tabs :
         (ObserverCallback(t) /\ loadPc[t] \in {"pending", "read"}) =>
            \A e \in Editors : editors'[t][e].listeners = << >>]_vars

\* C19: the built-in defaults are the same in every context: while the
\* store is empty, the settings the Settings UI shows once it has loaded,
\* the settings the background script would write on install, and the
\* currentSettings of every tab whose content script has loaded are equal.
C19_SameDefaults ==
    store = EmptyStore =>
        /\ storageGet(store, DEFAULT_SETTINGS_popup) = DEFAULT_SETTINGS_background
        /\ (popupLoad = "done" /\ nChanges = 0) => selects = DEFAULT_SETTINGS_background
        /\ \A t \in Tabs :
             (tab[t] = "ready" /\ loadPc[t] = "done") =>
                currentSettings[t] = DEFAULT_SETTINGS_background

\* C20: when the store write of saveSettings fails, the step leaves the
\* store, the messages in flight and every tab's currentSettings as they
\* were, and the failed call is gone: no call is left that has got past its
\* store write without the store holding what some such call wrote, so no
\* SETTINGS_UPDATED message is sent for the change.
C20_FailedWriteSilent ==
    /\ [](\A i \in 1..Len(saves) : saves[i].pc = "query" => store # EmptyStore)
    /\ [][(\E i \in 1..Len(saves) : saves[i].pc = "set" /\ Len(saves') < Len(saves)
                                     /\ saves' = without(saves, i)) =>
             /\ UNCHANGED <<store, inflight, currentSettings>>
             /\ \A j \in 1..Len(saves') : saves'[j].pc = "query" =>
                                            \E k \in 1..Len(saves) : saves[k] = saves'[j]]_vars

\* The one change of the Settings UI has failed to be stored: the selects
\* show it, the store is empty, and no message is in flight or was received.
C20_Witness ==
    /\ nChanges > 0 /\ saves = << >> /\ store = EmptyStore
    /\ selects # DEFAULT_SETTINGS_popup
    /\ \A t \in Tabs : inflight[t] = << >>
    /\ \E t \in Tabs : tab[t] = "ready" /\ currentSettings[t] = DEFAULT_SETTINGS(variant)
====
